---- MODULE Spec2Model ----
(***************************************************************************)
(* Model of js/script.js, the controller of the project gallery page:      *)
(* loading projects.json, the track filter buttons, the card grid, the     *)
(* theme switch and the details modal.                                     *)
(*                                                                         *)
(* JavaScript strings are sequences of one-character strings, so that      *)
(* toLowerCase, includes and template literals are computed, not assumed.  *)
(* A project record has every field slot; the fields the JSON document     *)
(* leaves out are listed in its "missing" set (reading one gives           *)
(* undefined).                                                             *)
(***************************************************************************)
EXTENDS Naturals, Sequences, FiniteSets, TLC

VARIABLES
    pc,             \* position of init(): "start", "fetching", "parsing", "done"
    heap,           \* the arrays of the page, by reference (index)
    allProjects,    \* script.js:34, a reference into heap
    activeTrack,    \* script.js:35, NullTrack or a track code
    buttons,        \* the buttons of #trackFilters, in document order
    grid,           \* the cards of #projectGrid, in document order
    noResultsShown, \* #noResults carries the class 'show'
    bodyClasses,    \* document.body.classList, in order
    banner,         \* #programHeader style.background
    modal,          \* the fields of #projectModal
    fetchCount,     \* number of fetch(DATA_PATH) calls issued
    errorLogged,    \* the error init's catch gave to console.error, or "none"
    ret,            \* outcome of the last direct filterProjectsByTrack call,
                    \* and how often its caller changed the array since
    lastOp,         \* history: the handler or call that ran last
    lastClick,      \* history: the code of the filter control activated last
                    \* and not cleared since
    lastTheme       \* history: the code of the last applyTheme call

vars == <<pc, heap, allProjects, activeTrack, buttons, grid, noResultsShown,
          bodyClasses, banner, modal, fetchCount, errorLogged, ret, lastOp,
          lastClick, lastTheme>>

(***************************************************************************)
(* Bounds                                                                  *)
(***************************************************************************)
MaxProjects == 3
MaxMutations == 1
MaxThemeProjects == 2

(***************************************************************************)
(* Strings                                                                 *)
(***************************************************************************)
UpperChars == <<"A","B","C","D","E","F","G","H","I","J","K","L","M",
                "N","O","P","Q","R","S","T","U","V","W","X","Y","Z">>
LowerChars == <<"a","b","c","d","e","f","g","h","i","j","k","l","m",
                "n","o","p","q","r","s","t","u","v","w","x","y","z">>

\* the lower-case letter of each upper-case letter
UpperToLower ==
    [c \in {UpperChars[i] : i \in 1..Len(UpperChars)} |->
        LowerChars[CHOOSE i \in 1..Len(UpperChars) : UpperChars[i] = c]]

\* String.prototype.toLowerCase on one character
LowerChar(c) == IF c \in DOMAIN UpperToLower THEN UpperToLower[c] ELSE c

\* String.prototype.toLowerCase
toLowerCase(s) == [i \in 1..Len(s) |-> LowerChar(s[i])]

\* String.prototype.includes
includes(s, e) ==
    \E i \in 0..Len(s) :
        /\ i + Len(e) <= Len(s)
        /\ SubSeq(s, i + 1, i + Len(e)) = e

\* String(undefined), what a template literal puts for a missing field
StrUndefined == <<"u","n","d","e","f","i","n","e","d">>

\* " • ", the separator of the modal header line (script.js:192);
\* the bullet character U+2022 is written "bullet"
Sep == <<" ", "bullet", " ">>

sSoftwareEngineering ==
    <<"S","o","f","t","w","a","r","e"," ","E","n","g","i","n","e","e","r","i","n","g">>
sDataAnalytics == <<"D","a","t","a"," ","A","n","a","l","y","t","i","c","s">>
sDigitalMarketing ==
    <<"D","i","g","i","t","a","l"," ","M","a","r","k","e","t","i","n","g">>
sCybersecurity == <<"C","y","b","e","r","s","e","c","u","r","i","t","y">>
sCloud == <<"C","l","o","u","d">>
sBanking == <<"B","a","n","k","i","n","g">>
sCapstoneProject ==
    <<"C","a","p","s","t","o","n","e"," ","P","r","o","j","e","c","t">>
sUntitledProject ==
    <<"U","n","t","i","t","l","e","d"," ","P","r","o","j","e","c","t">>
sProject == <<"P","r","o","j","e","c","t">>
sOpenDetailsFor ==
    <<"O","p","e","n"," ","d","e","t","a","i","l","s"," ","f","o","r"," ">>

(***************************************************************************)
(* Config: TRACK_MAP                                                       *)
(***************************************************************************)
\* JavaScript values met by the TRACK_MAP lookup
JsNull == [t |-> "null", v |-> <<>>]
JsUndefined == [t |-> "undefined", v |-> <<>>]
JsObject == [t |-> "object", v |-> <<>>]
JsString(s) == [t |-> "string", v |-> s]

\* Object.keys(TRACK_MAP), in insertion order
TrackMapKeys == <<"All", "SE", "DA", "DM", "CY", "CD", "Banking">>

TRACK_MAP ==
    [code \in {TrackMapKeys[i] : i \in 1..Len(TrackMapKeys)} |->
        CASE code = "All" -> JsNull
          [] code = "SE" -> JsString(sSoftwareEngineering)
          [] code = "DA" -> JsString(sDataAnalytics)
          [] code = "DM" -> JsString(sDigitalMarketing)
          [] code = "CY" -> JsString(sCybersecurity)
          [] code = "CD" -> JsString(sCloud)
          [] code = "Banking" -> JsString(sBanking)]

\* TRACK_MAP is an object literal: a property it does not own is looked up
\* on Object.prototype, whose members are functions or objects
ObjectPrototypeNames == {"constructor", "toString", "__proto__"}

\* TRACK_MAP[trackCode]
TrackMapGet(trackCode) ==
    IF trackCode \in DOMAIN TRACK_MAP THEN TRACK_MAP[trackCode]
    ELSE IF trackCode \in ObjectPrototypeNames THEN JsObject
    ELSE JsUndefined

\* !v
Falsy(v) == v.t \in {"null", "undefined"} \/ (v.t = "string" /\ v.v = <<>>)

(***************************************************************************)
(* Project records (the elements of data/projects.json)                    *)
(***************************************************************************)
sCapstone == <<"C","a","p","s","t","o","n","e">>
sMini == <<"M","i","n","i">>
sDataAnalyticsAdvanced ==
    <<"D","a","t","a"," ","A","n","a","l","y","t","i","c","s"," ","-"," ",
      "A","d","v","a","n","c","e","d">>
sDataAnalyticsLower == <<"d","a","t","a"," ","a","n","a","l","y","t","i","c","s">>
sBigDataAndAnalytics ==
    <<"B","i","g"," ","D","a","t","a"," ","&"," ","A","n","a","l","y","t","i","c","s">>

Fields == {"type", "track", "header", "project_title", "brief_description",
           "detailed_description", "technologies_used", "core_features"}

PSE ==
    [type |-> sCapstone, track |-> sSoftwareEngineering,
     header |-> sCapstoneProject, project_title |-> <<"X">>,
     brief_description |-> <<"b","1">>, detailed_description |-> <<"d","1">>,
     technologies_used |-> << <<"J","S">>, <<"G","o">> >>,
     core_features |-> << <<"f","1">> >>, missing |-> {}]

PDAAdvanced ==
    [type |-> sMini, track |-> sDataAnalyticsAdvanced,
     header |-> sMini, project_title |-> <<"Y">>,
     brief_description |-> <<"b","2">>, detailed_description |-> <<>>,
     technologies_used |-> << <<"S","Q","L">> >>,
     core_features |-> <<>>, missing |-> {"detailed_description", "core_features"}]

PDALower ==
    [type |-> sCapstone, track |-> sDataAnalyticsLower,
     header |-> <<>>, project_title |-> <<"Z">>,
     brief_description |-> <<"b","3">>, detailed_description |-> <<"d","3">>,
     technologies_used |-> <<>>,
     core_features |-> << <<"f","3">> >>, missing |-> {"header", "technologies_used"}]

PBigData ==
    [type |-> <<>>, track |-> sBigDataAndAnalytics,
     header |-> sCapstoneProject, project_title |-> <<>>,
     brief_description |-> <<>>, detailed_description |-> <<"d","4">>,
     technologies_used |-> << <<"R">> >>,
     core_features |-> <<>>, missing |-> {"type", "project_title", "brief_description"}]

PBare ==
    [type |-> <<>>, track |-> <<>>, header |-> <<>>, project_title |-> <<>>,
     brief_description |-> <<>>, detailed_description |-> <<>>,
     technologies_used |-> <<>>, core_features |-> <<>>, missing |-> Fields]

ProjectPool == {PSE, PDAAdvanced, PDALower, PBigData, PBare}

\* the arrays of at most n records projects.json may hold
ListsUpTo(n) == UNION {[1..k -> ProjectPool] : k \in 0..n}

ProjectLists == ListsUpTo(MaxProjects)

\* p.f is present
Has(p, f) == f \notin p.missing

\* p.f || '' and p.f || []
OrEmpty(p, f) == IF Has(p, f) THEN p[f] ELSE <<>>

\* p.f || fallback, for a string field
OrElse(p, f, fallback) == IF Has(p, f) /\ p[f] # <<>> THEN p[f] ELSE fallback

\* ${p.f} in a template literal
Interpolate(p, f) == IF Has(p, f) THEN p[f] ELSE StrUndefined

(***************************************************************************)
(* Render helpers                                                          *)
(***************************************************************************)
DefaultAccent == "linear-gradient(90deg, var(--accent), rgba(0,0,0,0.04))"

\* createTrackButtons: one button per key of TRACK_MAP except "All"
NewButton(code) ==
    [code |-> code, active |-> FALSE, btnPrimary |-> FALSE,
     btnOutlinePrimary |-> TRUE, ariaPressed |-> "false"]

createTrackButtons ==
    LET codes == SelectSeq(TrackMapKeys, LAMBDA c : c # "All")
    IN  [i \in 1..Len(codes) |-> NewButton(codes[i])]

\* the card renderProjectsList builds for projects[idx]
Card(p, idx) ==
    [project |-> p,
     titleId |-> idx,
     dataTrack |-> OrEmpty(p, "track"),
     accent |-> DefaultAccent,
     header |-> OrEmpty(p, "header"),
     capstoneHeader |-> (Has(p, "header") /\ p.header = sCapstoneProject),
     title |-> OrElse(p, "project_title", sUntitledProject),
     brief |-> OrEmpty(p, "brief_description"),
     techPills |-> OrEmpty(p, "technologies_used"),
     ariaLabel |-> sOpenDetailsFor \o Interpolate(p, "project_title")]

\* renderProjectsList: the children of #projectGrid afterwards
RenderGrid(projects) == [i \in 1..Len(projects) |-> Card(projects[i], i - 1)]

\* a renderProjectsList that never removes 'show' from #noResults
RenderNoResultsNeverHidden(projects) == TRUE

\* renderProjectsList: whether #noResults carries 'show' afterwards
RenderNoResults(projects) == Len(projects) = 0

(***************************************************************************)
(* Filtering logic                                                         *)
(***************************************************************************)
\* a filter callback that compares the case as written
TrackMatchesCaseSensitive(p, expected) == includes(OrEmpty(p, "track"), expected)

\* the callback of allProjects.filter
TrackMatches(p, expected) ==
    includes(toLowerCase(OrEmpty(p, "track")), toLowerCase(expected))

\* filterProjectsByTrack over the array `all`; alias tells whether the
\* returned array is the array `all` itself or a new one
FilterProjects(all, trackCode) ==
    LET expected == TrackMapGet(trackCode)
    IN  IF Falsy(expected)
        THEN [kind |-> "return", alias |-> FALSE, value |-> all]
        ELSE IF expected.t # "string" /\ Len(all) > 0
        THEN [kind |-> "throw", alias |-> FALSE, value |-> <<>>]
        ELSE [kind |-> "return", alias |-> FALSE,
              value |-> SelectSeq(all, LAMBDA p : TrackMatches(p, expected.v))]

filterProjectsByTrack(trackCode) == FilterProjects(heap[allProjects], trackCode)

(***************************************************************************)
(* Theme switching                                                         *)
(***************************************************************************)
ThemeClass(trackCode) == [theme |-> TRUE, name |-> trackCode]
PlainClass(name) == [theme |-> FALSE, name |-> name]

\* DOMTokenList.remove
RemoveToken(list, cls) == SelectSeq(list, LAMBDA c : c # cls)

\* DOMTokenList.add
AddToken(list, cls) ==
    IF \E i \in 1..Len(list) : list[i] = cls THEN list ELSE Append(list, cls)

\* body.classList.forEach(cls => { if (cls.startsWith('theme-')) remove }):
\* the list is live, so a removal moves the next token under index i
RECURSIVE RemoveThemeClasses(_, _)
RemoveThemeClasses(list, i) ==
    IF i > Len(list) THEN list
    ELSE IF list[i].theme
         THEN RemoveThemeClasses(RemoveToken(list, list[i]), i + 1)
         ELSE RemoveThemeClasses(list, i + 1)

\* an applyTheme that adds the new marker and keeps the previous ones
ThemeBodyClassesKeepsOld(list, trackCode) == AddToken(list, ThemeClass(trackCode))

\* applyTheme: document.body.classList afterwards
ThemeBodyClasses(list, trackCode) ==
    AddToken(RemoveThemeClasses(list, 1), ThemeClass(trackCode))

\* the color pairs of applyTheme's switch
ThemedCodes == {"DA", "SE", "DM", "CY", "CD", "Banking"}

Gradient(trackCode) ==
    CASE trackCode = "DA" -> "linear-gradient(90deg, #007bff, #00c0ff)"
      [] trackCode = "SE" -> "linear-gradient(90deg, #28a745, #85e085)"
      [] trackCode = "DM" -> "linear-gradient(90deg, #ffc107, #fff3cd)"
      [] trackCode = "CY" -> "linear-gradient(90deg, #dc3545, #f8d7da)"
      [] trackCode = "CD" -> "linear-gradient(90deg, #6f42c1, #e2d9f3)"
      [] trackCode = "Banking" -> "linear-gradient(90deg, #007bff, #80bdff)"

NeutralBackground == "#f8f9fa"

\* applyTheme: banner.style.background afterwards
ThemeBanner(trackCode) ==
    IF trackCode \in ThemedCodes THEN Gradient(trackCode) ELSE NeutralBackground

\* applyTheme: the cards, with their accent strips, afterwards
ThemeAccents(cards, trackCode) ==
    IF trackCode \in ThemedCodes
    THEN [i \in 1..Len(cards) |-> [cards[i] EXCEPT !.accent = Gradient(trackCode)]]
    ELSE cards

(***************************************************************************)
(* Modal                                                                   *)
(***************************************************************************)
\* openModal: the fields of the modal afterwards (project: the record it
\* was opened for)
openModal(project) ==
    [title |-> OrElse(project, "project_title", sProject),
     header |-> Interpolate(project, "type") \o Sep
                \o Interpolate(project, "track") \o Sep
                \o OrEmpty(project, "header"),
     detailed |-> OrElse(project, "detailed_description",
                         OrEmpty(project, "brief_description")),
     tech |-> OrEmpty(project, "technologies_used"),
     features |-> OrEmpty(project, "core_features"),
     shown |-> TRUE,
     project |-> project]

(***************************************************************************)
(* State after the script is loaded (script.js:27-35) and before           *)
(* DOMContentLoaded calls init                                             *)
(***************************************************************************)
NullTrack == "<null>"
NoCode == "<none>"
NoRet == [code |-> NoCode, kind |-> "none", ref |-> 0, mutations |-> 0]

\* the page as the markup gives it: the class list of <body>, the modal
\* fields, the banner's inline background, the class 'show' of #noResults
MarkupBodyClasses == <<PlainClass("gallery")>>
MarkupBanner == ""
MarkupNoResultsShown == TRUE
MarkupModal ==
    [title |-> <<>>, header |-> <<>>, detailed |-> <<>>, tech |-> <<>>,
     features |-> <<>>, shown |-> FALSE, project |-> PBare]

Init ==
    /\ pc = "start"
    /\ heap = << <<>> >>
    /\ allProjects = 1
    /\ activeTrack = NullTrack
    /\ buttons = <<>>
    /\ grid = <<>>
    /\ noResultsShown = MarkupNoResultsShown
    /\ bodyClasses = MarkupBodyClasses
    /\ banner = MarkupBanner
    /\ modal = MarkupModal
    /\ fetchCount = 0
    /\ errorLogged = "none"
    /\ ret = NoRet
    /\ lastOp = "load"
    /\ lastClick = NoCode
    /\ lastTheme = NoCode

(***************************************************************************)
(* Filter buttons                                                          *)
(***************************************************************************)
ButtonCodes == {createTrackButtons[i].code : i \in 1..Len(createTrackButtons)}

Deactivated(b) ==
    [b EXCEPT !.active = FALSE, !.btnPrimary = FALSE,
              !.btnOutlinePrimary = TRUE, !.ariaPressed = "false"]

Activated(b) ==
    [b EXCEPT !.active = TRUE, !.btnPrimary = TRUE,
              !.btnOutlinePrimary = FALSE, !.ariaPressed = "true"]

\* onTrackClick step 1: reset every button, then mark the clicked one
ActivateOnly(bs, code) ==
    [i \in 1..Len(bs) |->
        IF bs[i].code = code THEN Activated(bs[i]) ELSE Deactivated(bs[i])]

\* the clear handler's reset of the button states
DeactivateAll(bs) == [i \in 1..Len(bs) |-> Deactivated(bs[i])]

\* init: highlight the default button, the others are left as they are
HighlightDefault(bs, code) ==
    [i \in 1..Len(bs) |-> IF bs[i].code = code THEN Activated(bs[i]) ELSE bs[i]]

(***************************************************************************)
(* Handlers                                                                *)
(***************************************************************************)
\* click on the filter button of `code`; the codes of the buttons are keys
\* of TRACK_MAP, for which filterProjectsByTrack returns
onTrackClick(code) ==
    /\ pc # "start"
    /\ LET filteredProjects == filterProjectsByTrack(code).value
       IN  /\ buttons' = ActivateOnly(buttons, code)
           /\ grid' = ThemeAccents(RenderGrid(filteredProjects), code)
           /\ noResultsShown' = RenderNoResults(filteredProjects)
    /\ bodyClasses' = ThemeBodyClasses(bodyClasses, code)
    /\ banner' = ThemeBanner(code)
    /\ activeTrack' = code
    /\ lastOp' = "click"
    /\ lastClick' = code
    /\ lastTheme' = code
    /\ UNCHANGED <<pc, heap, allProjects, modal, fetchCount, errorLogged, ret>>

\* a clear handler that leaves activeTrack as it is
ClearFilterKeepsActiveTrack ==
    /\ pc # "start"
    /\ buttons' = DeactivateAll(buttons)
    /\ grid' = RenderGrid(heap[allProjects])
    /\ noResultsShown' = RenderNoResults(heap[allProjects])
    /\ lastOp' = "clear"
    /\ lastClick' = NoCode
    /\ UNCHANGED <<pc, heap, allProjects, activeTrack, bodyClasses, banner,
                   modal, fetchCount, errorLogged, ret, lastTheme>>

\* a clear handler that also resets the theme, with applyTheme('All')
ClearFilterResetsTheme ==
    /\ pc # "start"
    /\ buttons' = DeactivateAll(buttons)
    /\ activeTrack' = NullTrack
    /\ grid' = RenderGrid(heap[allProjects])
    /\ noResultsShown' = RenderNoResults(heap[allProjects])
    /\ bodyClasses' = ThemeBodyClasses(bodyClasses, "All")
    /\ banner' = ThemeBanner("All")
    /\ lastTheme' = "All"
    /\ lastOp' = "clear"
    /\ lastClick' = NoCode
    /\ UNCHANGED <<pc, heap, allProjects, modal, fetchCount, errorLogged, ret>>

\* click on #clearFilter
ClearFilter ==
    /\ pc # "start"
    /\ buttons' = DeactivateAll(buttons)
    /\ activeTrack' = NullTrack
    /\ grid' = RenderGrid(heap[allProjects])
    /\ noResultsShown' = RenderNoResults(heap[allProjects])
    /\ lastOp' = "clear"
    /\ lastClick' = NoCode
    /\ UNCHANGED <<pc, heap, allProjects, bodyClasses, banner, modal,
                   fetchCount, errorLogged, ret, lastTheme>>

\* click on the "View details" button of the i-th card
ViewDetails(i) ==
    /\ i \in 1..Len(grid)
    /\ modal' = openModal(grid[i].project)
    /\ lastOp' = "openModal"
    /\ UNCHANGED <<pc, heap, allProjects, activeTrack, buttons, grid,
                   noResultsShown, bodyClasses, banner, fetchCount,
                   errorLogged, ret, lastClick, lastTheme>>

(***************************************************************************)
(* Initialization                                                          *)
(***************************************************************************)
DEFAULT_TRACK == "DA"

\* init up to its first await: buttons, clear handler, fetch(DATA_PATH)
InitStart ==
    /\ pc = "start"
    /\ buttons' = createTrackButtons
    /\ fetchCount' = fetchCount + 1
    /\ pc' = "fetching"
    /\ lastOp' = "initStart"
    /\ UNCHANGED <<heap, allProjects, activeTrack, grid, noResultsShown,
                   bodyClasses, banner, modal, errorLogged, ret, lastClick,
                   lastTheme>>

\* the fetch resolved with res.ok: init awaits res.json()
FetchOk ==
    /\ pc = "fetching"
    /\ pc' = "parsing"
    /\ lastOp' = "fetchOk"
    /\ UNCHANGED <<heap, allProjects, activeTrack, buttons, grid,
                   noResultsShown, bodyClasses, banner, modal, fetchCount,
                   errorLogged, ret, lastClick, lastTheme>>

\* init from "Default track setup" to its end, allProjects holding `all`
DefaultTrackSetup(all) ==
    /\ LET defaultProjects == FilterProjects(all, DEFAULT_TRACK).value
       IN  /\ grid' = ThemeAccents(RenderGrid(defaultProjects), DEFAULT_TRACK)
           /\ noResultsShown' = RenderNoResults(defaultProjects)
    /\ buttons' = HighlightDefault(buttons, DEFAULT_TRACK)
    /\ activeTrack' = DEFAULT_TRACK
    /\ bodyClasses' = ThemeBodyClasses(bodyClasses, DEFAULT_TRACK)
    /\ banner' = ThemeBanner(DEFAULT_TRACK)
    /\ lastTheme' = DEFAULT_TRACK
    /\ pc' = "done"

\* res.json() resolved with the array `list`
JsonOk(list) ==
    /\ pc = "parsing"
    /\ heap' = Append(heap, list)
    /\ allProjects' = Len(heap) + 1
    /\ DefaultTrackSetup(list)
    /\ lastOp' = "loaded"
    /\ UNCHANGED <<modal, fetchCount, errorLogged, ret, lastClick>>

\* a failed load escapes init: the promise init returned is rejected and
\* the default track setup never runs
LoadErrorEscapes(err) ==
    /\ pc' = "rejected"
    /\ lastOp' = "loadFailed"
    /\ UNCHANGED <<heap, allProjects, activeTrack, buttons, grid,
                   noResultsShown, bodyClasses, banner, modal, fetchCount,
                   errorLogged, ret, lastClick, lastTheme>>

\* init's catch block for the error `err`, and the rest of init after it
CatchLoadError(err) ==
    /\ errorLogged' = err
    /\ heap' = Append(heap, <<>>)
    /\ allProjects' = Len(heap) + 1
    /\ DefaultTrackSetup(<<>>)
    /\ lastOp' = "loadFailed"
    /\ UNCHANGED <<modal, fetchCount, ret, lastClick>>

\* the fetch rejected (network error)
FetchRejected == pc = "fetching" /\ CatchLoadError("TypeError: Failed to fetch")

\* the fetch resolved with a non-success status: init throws
FetchNotOk ==
    pc = "fetching" /\ CatchLoadError("Error: Failed to fetch project data")

\* res.json() rejected (the body does not parse)
JsonRejected == pc = "parsing" /\ CatchLoadError("SyntaxError")

Next ==
    \/ InitStart
    \/ FetchOk
    \/ FetchRejected
    \/ FetchNotOk
    \/ JsonRejected
    \/ \E list \in ProjectLists : JsonOk(list)
    \/ \E code \in ButtonCodes : onTrackClick(code)
    \/ ClearFilter
    \/ \E i \in 1..MaxProjects : ViewDetails(i)

Spec == Init /\ [][Next]_vars

(***************************************************************************)
(* The page after init loaded `list`, the <body> of the markup carrying    *)
(* `classes`: the state InitStart, FetchOk and JsonOk(list) lead to        *)
(***************************************************************************)
Loaded(list, classes) ==
    /\ pc = "done"
    /\ heap = << <<>>, list >>
    /\ allProjects = 2
    /\ activeTrack = DEFAULT_TRACK
    /\ buttons = HighlightDefault(createTrackButtons, DEFAULT_TRACK)
    /\ grid = ThemeAccents(RenderGrid(FilterProjects(list, DEFAULT_TRACK).value),
                           DEFAULT_TRACK)
    /\ noResultsShown = RenderNoResults(FilterProjects(list, DEFAULT_TRACK).value)
    /\ bodyClasses = ThemeBodyClasses(classes, DEFAULT_TRACK)
    /\ banner = ThemeBanner(DEFAULT_TRACK)
    /\ modal = MarkupModal
    /\ fetchCount = 1
    /\ errorLogged = "none"
    /\ ret = NoRet
    /\ lastOp = "loaded"
    /\ lastClick = NoCode
    /\ lastTheme = DEFAULT_TRACK

(***************************************************************************)
(* filterProjectsByTrack called directly, with any code, by a caller that  *)
(* then changes the array it got                                           *)
(***************************************************************************)
\* codes given to a direct call: the keys of TRACK_MAP and codes absent from it
FilterCodes == DOMAIN TRACK_MAP \cup {"XX", "constructor"}

\* the arrays that stay alive: the initial [] and the loaded array
LiveArrays == SubSeq(heap, 1, 2)

CallFilter(code) ==
    /\ LET out == filterProjectsByTrack(code)
       IN  IF out.kind = "throw"
           THEN /\ heap' = LiveArrays
                /\ ret' = [code |-> code, kind |-> "throw", ref |-> 0,
                           mutations |-> 0]
           ELSE IF out.alias
           THEN /\ heap' = LiveArrays
                /\ ret' = [code |-> code, kind |-> "return", ref |-> allProjects,
                           mutations |-> 0]
           ELSE /\ heap' = Append(LiveArrays, out.value)
                /\ ret' = [code |-> code, kind |-> "return",
                           ref |-> Len(LiveArrays) + 1, mutations |-> 0]
    /\ lastOp' = "filter"
    /\ UNCHANGED <<pc, allProjects, activeTrack, buttons, grid, noResultsShown,
                   bodyClasses, banner, modal, fetchCount, errorLogged,
                   lastClick, lastTheme>>

\* the caller pushes a record onto the returned array
RetPush ==
    /\ ret.kind = "return"
    /\ ret.mutations < MaxMutations
    /\ heap' = [heap EXCEPT ![ret.ref] = Append(@, PBare)]
    /\ ret' = [ret EXCEPT !.mutations = @ + 1]
    /\ lastOp' = "push"
    /\ UNCHANGED <<pc, allProjects, activeTrack, buttons, grid, noResultsShown,
                   bodyClasses, banner, modal, fetchCount, errorLogged,
                   lastClick, lastTheme>>

\* the caller pops the last record of the returned array
RetPop ==
    /\ ret.kind = "return"
    /\ ret.mutations < MaxMutations
    /\ Len(heap[ret.ref]) > 0
    /\ heap' = [heap EXCEPT ![ret.ref] = SubSeq(@, 1, Len(@) - 1)]
    /\ ret' = [ret EXCEPT !.mutations = @ + 1]
    /\ lastOp' = "pop"
    /\ UNCHANGED <<pc, allProjects, activeTrack, buttons, grid, noResultsShown,
                   bodyClasses, banner, modal, fetchCount, errorLogged,
                   lastClick, lastTheme>>

InitFilter == \E list \in ProjectLists : Loaded(list, MarkupBodyClasses)

NextFilter ==
    \/ \E code \in FilterCodes : CallFilter(code)
    \/ RetPush
    \/ RetPop

SpecFilter == InitFilter /\ [][NextFilter]_vars

(***************************************************************************)
(* applyTheme called directly, with any code, between the clicks           *)
(***************************************************************************)
\* codes given to a direct call: codes with and without a color pair
ThemeCodes == ThemedCodes \cup {"All", "XX"}

\* class lists the markup may give <body>
MarkupBodyClassesOptions ==
    {<<>>, MarkupBodyClasses, <<ThemeClass("light"), PlainClass("gallery")>>}

applyTheme(trackCode) ==
    /\ bodyClasses' = ThemeBodyClasses(bodyClasses, trackCode)
    /\ banner' = ThemeBanner(trackCode)
    /\ grid' = ThemeAccents(grid, trackCode)
    /\ lastTheme' = trackCode
    /\ lastOp' = "applyTheme"
    /\ UNCHANGED <<pc, heap, allProjects, activeTrack, buttons, noResultsShown,
                   modal, fetchCount, errorLogged, ret, lastClick>>

InitTheme ==
    \E list \in ListsUpTo(MaxThemeProjects), classes \in MarkupBodyClassesOptions :
        Loaded(list, classes)

NextTheme ==
    \/ \E code \in ThemeCodes : applyTheme(code)
    \/ \E code \in ButtonCodes : onTrackClick(code)
    \/ ClearFilter

SpecTheme == InitTheme /\ [][NextTheme]_vars

(***************************************************************************)
(* Properties                                                              *)
(***************************************************************************)
\* the array allProjects refers to
AllProjects == heap[allProjects]

\* the positions of the buttons marked active, by class or by aria-pressed
ActiveButtons ==
    {i \in 1..Len(buttons) : buttons[i].active \/ buttons[i].ariaPressed = "true"}

\* a and b are the same character, or the two cases of one letter
SameLetter(a, b) ==
    \/ a = b
    \/ \E i \in 1..Len(UpperChars) : {a, b} = {UpperChars[i], LowerChars[i]}

\* s contains l as a substring, the case of the letters set aside
ContainsCI(s, l) ==
    \E o \in 0..Len(s) :
        /\ o + Len(l) <= Len(s)
        /\ \A j \in 1..Len(l) : SameLetter(s[o + j], l[j])

\* the codes TRACK_MAP maps to a label
LabelledCodes == {c \in DOMAIN TRACK_MAP : TRACK_MAP[c].t = "string"}

\* the positions of `all` whose record has a track containing the label of code
MatchingPositions(all, code) ==
    {i \in 1..Len(all) :
        /\ "track" \notin all[i].missing
        /\ ContainsCI(all[i].track, TRACK_MAP[code].v)}

\* the k-th smallest element of the set S of numbers
NthOf(S, k) == CHOOSE i \in S : Cardinality({j \in S : j <= i}) = k

\* the records at the matching positions, in the order of `all`
MatchingRecords(all, code) ==
    [k \in 1..Cardinality(MatchingPositions(all, code)) |->
        all[NthOf(MatchingPositions(all, code), k)]]

\* the number of records activeTrack selects
SelectedCount ==
    IF activeTrack \in LabelledCodes
    THEN Cardinality(MatchingPositions(AllProjects, activeTrack))
    ELSE Len(AllProjects)

\* C1: at most one filter control is marked active in every state, and
\* exactly one right after a control is activated or init finishes.
C1_MutualExclusion ==
    /\ Cardinality(ActiveButtons) <= 1
    /\ lastOp \in {"click", "loaded", "loadFailed"} => Cardinality(ActiveButtons) = 1

C3_LastClickWins ==
    lastClick # NoCode =>
        /\ activeTrack = lastClick
        /\ \E i \in 1..Len(bodyClasses) : bodyClasses[i] = ThemeClass(lastClick)
        /\ banner = Gradient(lastClick)
        /\ Len(grid) = Len(MatchingRecords(AllProjects, lastClick))
        /\ \A i \in 1..Len(grid) :
              grid[i].project = MatchingRecords(AllProjects, lastClick)[i]

\* C10: activeTrack is null exactly when no filter control is marked
\* active, and the control of a non-null activeTrack is marked active with
\* aria-pressed 'true'.
C10_ActiveTrackMatchesControls ==
    /\ activeTrack = NullTrack <=> ActiveButtons = {}
    /\ activeTrack # NullTrack =>
          \E i \in 1..Len(buttons) :
              /\ buttons[i].code = activeTrack
              /\ buttons[i].active
              /\ buttons[i].ariaPressed = "true"

C10_Witness ==
    /\ activeTrack = "SE"
    /\ lastOp = "openModal"
    /\ \E i \in ActiveButtons : buttons[i].code = "SE"

\* the button of the default track is marked active
DefaultButtonActive ==
    \E i \in 1..Len(buttons) :
        /\ buttons[i].code = "DA"
        /\ buttons[i].active
        /\ buttons[i].ariaPressed = "true"

\* C6: a failed load (fetch rejected, non-success status, body that does
\* not parse) leaves allProjects empty, zero cards and the 'no results'
\* indicator shown; init runs to its end, with the DA control active, the DA
\* theme applied and activeTrack = 'DA'; one request is issued, never two.
C6_LoadFailureMasked ==
    /\ fetchCount <= 1
    /\ errorLogged # "none" =>
          /\ AllProjects = <<>>
          /\ grid = <<>>
          /\ noResultsShown
          /\ fetchCount = 1
    /\ lastOp = "loadFailed" =>
          /\ pc = "done"
          /\ errorLogged # "none"
          /\ DefaultButtonActive
          /\ activeTrack = "DA"
          /\ \E i \in 1..Len(bodyClasses) : bodyClasses[i] = ThemeClass("DA")
          /\ banner = "linear-gradient(90deg, #007bff, #00c0ff)"

C6_Witness ==
    /\ lastOp = "loadFailed"
    /\ errorLogged = "SyntaxError"
    /\ pc = "done"
    /\ noResultsShown

\* C7: the clear action leaves no filter control active, sets activeTrack to
\* null and renders one card per record of allProjects, in order; the theme
\* marker of the page root and the banner background stay as they were.
C7_ClearFrame ==
    [][lastOp' = "clear" =>
          /\ \A i \in 1..Len(buttons') :
                ~buttons'[i].active /\ buttons'[i].ariaPressed = "false"
          /\ activeTrack' = NullTrack
          /\ Len(grid') = Len(heap'[allProjects'])
          /\ \A i \in 1..Len(grid') : grid'[i].project = heap'[allProjects'][i]
          /\ bodyClasses' = bodyClasses
          /\ banner' = banner]_vars

C7_Witness ==
    /\ lastOp = "clear"
    /\ lastTheme = "SE"
    /\ banner = "linear-gradient(90deg, #28a745, #85e085)"
    /\ activeTrack = NullTrack
    /\ Len(grid) = MaxProjects
    /\ ActiveButtons = {}

\* the value of the string field f of p, the empty string when p lacks it
EmptyWhenAbsent(p, f) == IF f \in p.missing THEN <<>> ELSE p[f]

\* C8: a field the record lacks contributes an empty string to the output:
\* the header line of the modal is 'type • track • header' with the empty
\* string for each of the three the record lacks.
C8_AbsentFieldsAreEmpty ==
    modal.shown =>
        modal.header = EmptyWhenAbsent(modal.project, "type") \o Sep
                       \o EmptyWhenAbsent(modal.project, "track") \o Sep
                       \o EmptyWhenAbsent(modal.project, "header")

\* C4: for a code TRACK_MAP maps to a label, filterProjectsByTrack returns
\* the records whose track contains the label, the case of the letters set
\* aside, in the order of allProjects; a record without track never matches.
C4_FilterBySubstring ==
    (lastOp = "filter" /\ ret.code \in LabelledCodes) =>
        /\ ret.kind = "return"
        /\ heap[ret.ref] = MatchingRecords(AllProjects, ret.code)

C4_Witness ==
    /\ lastOp = "filter"
    /\ ret.code = "DA"
    /\ AllProjects = <<PSE, PDAAdvanced, PDALower>>
    /\ heap[ret.ref] = <<PDAAdvanced, PDALower>>

\* C5: for 'All' and for every code absent from TRACK_MAP,
\* filterProjectsByTrack returns an array equal to allProjects that is not
\* allProjects itself.
C5_UnfilteredFreshCopy ==
    (lastOp = "filter" /\ ret.code \notin LabelledCodes) =>
        /\ ret.kind = "return"
        /\ ret.ref # allProjects
        /\ heap[ret.ref] = AllProjects

\* the theme markers the page root carries
ThemeMarkers == {i \in 1..Len(bodyClasses) : bodyClasses[i].theme}

\* C9: once applyTheme ran, the page root carries exactly one theme marker,
\* that of the code applied last, with or without a color pair; the banner is
\* '#f8f9fa' for a code without a pair and the pair's gradient otherwise, and
\* right after applyTheme every rendered accent strip carries that gradient.
C9_OneThemeMarker ==
    lastTheme # NoCode =>
        /\ Cardinality(ThemeMarkers) = 1
        /\ \A i \in ThemeMarkers : bodyClasses[i].name = lastTheme
        /\ lastTheme \notin {"DA", "SE", "DM", "CY", "CD", "Banking"} =>
              banner = "#f8f9fa"
        /\ lastTheme \in {"DA", "SE", "DM", "CY", "CD", "Banking"} =>
              /\ banner = Gradient(lastTheme)
              /\ lastOp \in {"applyTheme", "click", "loaded"} =>
                    \A i \in 1..Len(grid) : grid[i].accent = Gradient(lastTheme)

C9_Witness ==
    /\ lastOp = "applyTheme"
    /\ lastTheme = "XX"
    /\ banner = "#f8f9fa"
    /\ bodyClasses = <<PlainClass("gallery"), ThemeClass("XX")>>
    /\ Len(grid) = 2

====
